---- MODULE Spec2Model ----
(***************************************************************************)
(* Model of the category-management HTTP API declared in                   *)
(* requirements/fastapi_docs.py: the authentication dependency, the        *)
(* request-body validation done by the schema classes, and the eight       *)
(* /api/categories handlers with the payloads they return.                 *)
(*                                                                         *)
(* Python values: an Optional[...] value is a sequence of length 0 (None / *)
(* field absent) or 1 (the value). A JSON array is a sequence, a JSON      *)
(* object a record.                                                        *)
(***************************************************************************)
EXTENDS Integers, Sequences, FiniteSets, TLC

(***************************************************************************)
(* Bounds of the model.                                                    *)
(***************************************************************************)
\* largest number of nodes in a submitted forest
MaxNodes == 2
\* largest number of nodes in the forests two concurrent callers submit
ConcMaxNodes == 1

(***************************************************************************)
(* Program constants.                                                      *)
(***************************************************************************)
API_KEY == "test_key"
NAME_MIN_LENGTH == 1
NAME_MAX_LENGTH == 100
ORDER_GE == 0

HTTP_200_OK == 200
HTTP_201_CREATED == 201
HTTP_401_UNAUTHORIZED == 401
HTTP_422_UNPROCESSABLE_ENTITY == 422
HTTP_500_INTERNAL_SERVER_ERROR == 500

ID0 == "550e8400-e29b-41d4-a716-446655440000"
ID1 == "550e8400-e29b-41d4-a716-446655440001"
ID2 == "550e8400-e29b-41d4-a716-446655440002"
ID3 == "550e8400-e29b-41d4-a716-446655440003"
MOCK_TIMESTAMP == "2023-07-15T12:00:00Z"

(***************************************************************************)
(* Python helpers.                                                         *)
(***************************************************************************)
None == <<>>
Some(v) == <<v>>
IsNone(o) == o = <<>>
\* truth value of an Optional[str]: None and "" are falsy
TruthyStr(o) == ~IsNone(o) /\ o[1] # ""
\* truth value of an Optional[int]: None and 0 are falsy
TruthyInt(o) == ~IsNone(o) /\ o[1] # 0
\* Python's `o or default`
OrStr(o, default) == IF TruthyStr(o) THEN o[1] ELSE default
OrInt(o, default) == IF TruthyInt(o) THEN o[1] ELSE default

Range(s) == {s[i] : i \in DOMAIN s}
SeqsUpTo(S, n) == UNION {[1..k -> S] : k \in 0..n}

RECURSIVE SumSeq(_)
SumSeq(s) == IF s = <<>> THEN 0 ELSE Head(s) + SumSeq(Tail(s))

(***************************************************************************)
(* Schemas.                                                                *)
(***************************************************************************)
\* CategoryBase.name: min_length / max_length
ValidName(name) == Len(name) >= NAME_MIN_LENGTH /\ Len(name) <= NAME_MAX_LENGTH

\* CategoryTreeNode: id required, name constrained, children validated
\* recursively
RECURSIVE ValidTreeNode(_)
ValidTreeNode(n) ==
    /\ ~IsNone(n.id)
    /\ ValidName(n.name)
    /\ \A i \in DOMAIN n.children : ValidTreeNode(n.children[i])

\* List[CategoryTreeNode]
ValidTree(categories) == \A i \in DOMAIN categories : ValidTreeNode(categories[i])

\* CategoryCreate: name required and constrained, order >= 0 when given
ValidCategoryCreate(b) ==
    /\ ~IsNone(b.name) /\ ValidName(b.name[1])
    /\ (IsNone(b.order) \/ b.order[1] >= ORDER_GE)

\* CategoryUpdate: every field optional, constrained when given
ValidCategoryUpdate(b) ==
    /\ (IsNone(b.name) \/ ValidName(b.name[1]))
    /\ (IsNone(b.order) \/ b.order[1] >= ORDER_GE)

\* CategoryPatch: every field optional, constrained when given
ValidCategoryPatch(b) ==
    /\ (IsNone(b.name) \/ ValidName(b.name[1]))
    /\ (IsNone(b.order) \/ b.order[1] >= ORDER_GE)

\* FormatEnum
FormatEnum == {"tree", "flat"}

(***************************************************************************)
(* Inputs.                                                                 *)
(***************************************************************************)
LongName ==
    "nnnnnnnnnnnnnnnnnnnnnnnnnnnnnnnnnnnnnnnnnnnnnnnnnnnnnnnnnnnnnnnnnnnnnnnnnnnnnnnnnnnnnnnnnnnnnnnnnnnnn"

\* Authorization header: absent, empty, the documented key, some other key
ApiKeys == {None, Some(""), Some(API_KEY), Some("wrong_key")}

IdOpts == {None, Some(ID0), Some(ID1)}
NodeNames == {"", "Electronics", "Phones", LongName}

Leaves == [id : IdOpts, name : NodeNames, children : {<<>>}]
NodesWith(k) == [id : IdOpts, name : NodeNames, children : [1..k -> Leaves]]

\* forests of depth <= 2 with at most n nodes: a shape gives each root's
\* number of children
Shapes(n) == {s \in SeqsUpTo(0..n, n) : Len(s) + SumSeq(s) <= n}
ForestsOfShape(s) ==
    {f \in [DOMAIN s -> UNION {NodesWith(k) : k \in Range(s)}] :
        \A i \in DOMAIN s : Len(f[i].children) = s[i]}
ForestsUpTo(n) == UNION {ForestsOfShape(s) : s \in Shapes(n)}

Submissions == ForestsUpTo(MaxNodes)
ConcSubmissions == ForestsUpTo(ConcMaxNodes)

Clients == {"c1", "c2"}
\* the caller of the sequential specification
Caller == {"c1"}


CategoryIds == {ID0, ID3}
Formats == {None, Some("tree"), Some("flat"), Some("xml")}
\* datetime.now().isoformat() + "Z"
Nows == {"2026-01-01T09:00:00.000001Z", "2026-01-02T09:00:00.000001Z"}

NoBody == [kind |-> "none"]
TreeBody(t) == [kind |-> "tree", categories |-> t]
FieldBodies ==
    [kind : {"fields"},
     name : {None, Some(""), Some("Phones")},
     parentId : {None, Some(ID0)},
     order : {None, Some(0), Some(2), Some(-1)}]

Request(ep, key, id, fmt, body) ==
    [endpoint |-> ep, api_key |-> key, category_id |-> id, format |-> fmt,
     body |-> body]

\* the requests a caller can send, by route
RequestsOf(ep) ==
    CASE ep = "get_categories" ->
           {Request(ep, k, "", f, NoBody) : k \in ApiKeys, f \in Formats}
      [] ep = "get_category_tree" ->
           {Request(ep, k, "", None, NoBody) : k \in ApiKeys}
      [] ep = "get_category" ->
           {Request(ep, k, id, None, NoBody) : k \in ApiKeys, id \in CategoryIds}
      [] ep = "create_category" ->
           {Request(ep, k, "", None, b) :
               k \in ApiKeys, b \in FieldBodies \cup {NoBody}}
      [] ep = "save_category_tree" ->
           {Request(ep, k, "", None, TreeBody(t)) :
               k \in ApiKeys, t \in Submissions}
      [] ep = "update_category" ->
           {Request(ep, k, id, None, b) :
               k \in ApiKeys, id \in CategoryIds, b \in FieldBodies \cup {NoBody}}
      [] ep = "patch_category" ->
           {Request(ep, k, id, None, b) :
               k \in ApiKeys, id \in CategoryIds, b \in FieldBodies \cup {NoBody}}
      [] ep = "delete_category" ->
           {Request(ep, k, id, None, NoBody) : k \in ApiKeys, id \in CategoryIds}

Endpoints ==
    {"get_categories", "get_category_tree", "get_category", "create_category",
     "save_category_tree", "update_category", "patch_category", "delete_category"}

NoRequest == [endpoint |-> "none"]
NoResponse == [status |-> 0, body |-> [kind |-> "none"]]
Response(st, body) == [status |-> st, body |-> body]

(***************************************************************************)
(* State: one record per caller with a request in flight.                  *)
(*   pc        where the request is: idle, received, authenticated,        *)
(*             validated, done                                             *)
(*   req       the request                                                 *)
(*   resp      the response, once there is one                             *)
(*   repeat    the request is a re-submission of the caller's previous     *)
(*             request, which was answered 2xx                             *)
(*   saveOrder the callers whose save_category_tree handler has run for    *)
(*             their current request, in the order the handlers ran        *)
(***************************************************************************)
VARIABLES pc, req, resp, repeat, saveOrder
vars == <<pc, req, resp, repeat, saveOrder>>

Init ==
    /\ pc = [c \in Clients |-> "idle"]
    /\ req = [c \in Clients |-> NoRequest]
    /\ resp = [c \in Clients |-> NoResponse]
    /\ repeat = [c \in Clients |-> FALSE]
    /\ saveOrder = <<>>

Without(s, c) == SelectSeq(s, LAMBDA x : x # c)

\* a caller sends request r
Submit(c, r, again) ==
    /\ pc' = [pc EXCEPT ![c] = "received"]
    /\ req' = [req EXCEPT ![c] = r]
    /\ resp' = [resp EXCEPT ![c] = NoResponse]
    /\ repeat' = [repeat EXCEPT ![c] = again]
    /\ saveOrder' = Without(saveOrder, c)

Send(c) ==
    /\ pc[c] = "idle"
    /\ \E ep \in Endpoints : \E r \in RequestsOf(ep) : Submit(c, r, FALSE)

\* the caller sends its previous, successful request once more
Resend(c) ==
    /\ pc[c] = "done"
    /\ resp[c].status \in 200..299
    /\ Submit(c, req[c], TRUE)

\* a save-tree call of a caller that runs next to another caller's
ConcSend(c) ==
    /\ pc[c] = "idle"
    /\ \E k \in ApiKeys : \E t \in ConcSubmissions :
          Submit(c, Request("save_category_tree", k, "", None, TreeBody(t)), FALSE)

\* the caller takes the response; its next request is a new one
Receive(c) ==
    /\ pc[c] = "done"
    /\ pc' = [pc EXCEPT ![c] = "idle"]
    /\ req' = [req EXCEPT ![c] = NoRequest]
    /\ resp' = [resp EXCEPT ![c] = NoResponse]
    /\ repeat' = [repeat EXCEPT ![c] = FALSE]
    /\ saveOrder' = Without(saveOrder, c)

Finish(c, r) ==
    /\ pc' = [pc EXCEPT ![c] = "done"]
    /\ resp' = [resp EXCEPT ![c] = r]
    /\ UNCHANGED <<req, repeat>>

(***************************************************************************)
(* get_current_user, with api_key_header(auto_error = False): a missing    *)
(* header is None.                                                         *)
(***************************************************************************)
\* `not api_key`
KeyRejected(api_key) == ~TruthyStr(api_key)

Authenticate(c) ==
    /\ pc[c] = "received"
    /\ IF KeyRejected(req[c].api_key)
       THEN Finish(c, Response(HTTP_401_UNAUTHORIZED,
                               [kind |-> "error", detail |-> "Missing API Key"]))
       ELSE /\ pc' = [pc EXCEPT ![c] = "authenticated"]
            /\ UNCHANGED <<req, resp, repeat>>
    /\ UNCHANGED saveOrder

(***************************************************************************)
(* Validation of the parameters and the body against the handler's         *)
(* signature.                                                              *)
(***************************************************************************)
RequestValid(r) ==
    CASE r.endpoint = "get_categories" ->
           IsNone(r.format) \/ r.format[1] \in FormatEnum
      [] r.endpoint = "create_category" ->
           r.body.kind = "fields" /\ ValidCategoryCreate(r.body)
      [] r.endpoint = "save_category_tree" ->
           r.body.kind = "tree" /\ ValidTree(r.body.categories)
      [] r.endpoint = "update_category" ->
           r.body.kind = "none" \/ ValidCategoryUpdate(r.body)
      [] r.endpoint = "patch_category" ->
           r.body.kind = "none" \/ ValidCategoryPatch(r.body)
      [] OTHER -> TRUE

Validate(c) ==
    /\ pc[c] = "authenticated"
    /\ IF RequestValid(req[c])
       THEN /\ pc' = [pc EXCEPT ![c] = "validated"]
            /\ UNCHANGED <<req, resp, repeat>>
       ELSE Finish(c, Response(HTTP_422_UNPROCESSABLE_ENTITY,
                               [kind |-> "error", detail |-> "validation error"]))
    /\ UNCHANGED saveOrder

Handling(c, ep) == pc[c] = "validated" /\ req[c].endpoint = ep

(***************************************************************************)
(* PUT /api/categories/tree                                                *)
(***************************************************************************)
\* the mock answer with one id reported twice
SaveTreeResultOverlap ==
    [kind |-> "saved",
     created |-> <<ID1, ID2>>,
     updated |-> <<ID1>>,
     deleted |-> <<ID3>>]

\* the answer of save_category_tree
SaveTreeResult ==
    [kind |-> "saved",
     created |-> <<ID1, ID2>>,
     updated |-> <<ID0>>,
     deleted |-> <<ID3>>]

SaveCategoryTree(c) ==
    /\ Handling(c, "save_category_tree")
    /\ Finish(c, Response(HTTP_200_OK, SaveTreeResult))
    /\ saveOrder' = Append(saveOrder, c)

(***************************************************************************)
(* GET /api/categories and GET /api/categories/tree                        *)
(***************************************************************************)
CategoryRecord(id, name, parentId, order, createdAt, updatedAt) ==
    [id |-> id, name |-> name, parentId |-> parentId, order |-> order,
     createdAt |-> createdAt, updatedAt |-> updatedAt]
TreeNode(id, name, children) == [id |-> id, name |-> name, children |-> children]

\* the flat list get_categories returns
FlatCategories ==
    << CategoryRecord(ID0, "Electronics", None, 0, MOCK_TIMESTAMP, MOCK_TIMESTAMP),
       CategoryRecord(ID1, "Phones", Some(ID0), 0, MOCK_TIMESTAMP, MOCK_TIMESTAMP) >>

\* the forest get_categories returns
TreeCategories ==
    << TreeNode(ID0, "Electronics",
                << TreeNode(ID1, "Phones", <<>>), TreeNode(ID2, "Laptops", <<>>) >>),
       TreeNode(ID3, "Clothing", <<>>) >>

\* the forest get_category_tree returns
ShortcutTreeCategories ==
    << TreeNode(ID0, "Electronics", << TreeNode(ID1, "Phones", <<>>) >>),
       TreeNode(ID3, "Clothing", <<>>) >>

\* a flat record read as a CategoryTreeNode: the fields the node does not
\* declare are dropped, children takes its default
AsTreeNode(rec) == TreeNode(rec.id, rec.name, <<>>)

\* response_model = Union[List[CategoryTreeNode], List[CategoryResponse]]:
\* a flat list fits both members, and which one serializes it depends on the
\* validation library's union rule (first match, or best match)
SerializeUnion(items) ==
    IF \A i \in DOMAIN items : "children" \in DOMAIN items[i]
    THEN {items}
    ELSE {items, [i \in DOMAIN items |-> AsTreeNode(items[i])]}

GetCategoriesResult(format) ==
    IF format = Some("flat") THEN FlatCategories ELSE TreeCategories

GetCategories(c) ==
    /\ Handling(c, "get_categories")
    /\ \E items \in SerializeUnion(GetCategoriesResult(req[c].format)) :
          Finish(c, Response(HTTP_200_OK, [kind |-> "list", items |-> items]))
    /\ UNCHANGED saveOrder

GetCategoryTree(c) ==
    /\ Handling(c, "get_category_tree")
    /\ Finish(c, Response(HTTP_200_OK,
                          [kind |-> "list", items |-> ShortcutTreeCategories]))
    /\ UNCHANGED saveOrder

(***************************************************************************)
(* Single-category handlers                                                *)
(***************************************************************************)
CategoryBody(rec) == [kind |-> "category", category |-> rec]

GetCategoryResult(category_id) ==
    CategoryRecord(category_id, "Sample Category", None, 0,
                   MOCK_TIMESTAMP, MOCK_TIMESTAMP)

GetCategory(c) ==
    /\ Handling(c, "get_category")
    /\ Finish(c, Response(HTTP_200_OK,
                          CategoryBody(GetCategoryResult(req[c].category_id))))
    /\ UNCHANGED saveOrder

CreateCategoryResult(category, now) ==
    CategoryRecord(ID0, category.name[1], category.parentId,
                   OrInt(category.order, 0), now, now)

CreateCategory(c) ==
    /\ Handling(c, "create_category")
    /\ \E now \in Nows :
          Finish(c, Response(HTTP_201_CREATED,
                             CategoryBody(CreateCategoryResult(req[c].body, now))))
    /\ UNCHANGED saveOrder

UpdateCategoryResult(category_id, category, now) ==
    CategoryRecord(category_id, OrStr(category.name, "Updated Category"),
                   category.parentId, OrInt(category.order, 0),
                   MOCK_TIMESTAMP, now)

\* category = None (no body): the attribute access raises
InternalError == Response(HTTP_500_INTERNAL_SERVER_ERROR,
                          [kind |-> "error", detail |-> "Internal Server Error"])

UpdateCategory(c) ==
    /\ Handling(c, "update_category")
    /\ IF req[c].body.kind = "none"
       THEN Finish(c, InternalError)
       ELSE \E now \in Nows :
               Finish(c, Response(HTTP_200_OK,
                  CategoryBody(UpdateCategoryResult(req[c].category_id, req[c].body, now))))
    /\ UNCHANGED saveOrder

PatchCategoryResult(category_id, patch, now) ==
    CategoryRecord(category_id, OrStr(patch.name, "Patched Category"),
                   IF ~IsNone(patch.parentId) THEN patch.parentId ELSE None,
                   OrInt(patch.order, 1),
                   MOCK_TIMESTAMP, now)

PatchCategory(c) ==
    /\ Handling(c, "patch_category")
    /\ IF req[c].body.kind = "none"
       THEN Finish(c, InternalError)
       ELSE \E now \in Nows :
               Finish(c, Response(HTTP_200_OK,
                  CategoryBody(PatchCategoryResult(req[c].category_id, req[c].body, now))))
    /\ UNCHANGED saveOrder

DeleteCategory(c) ==
    /\ Handling(c, "delete_category")
    /\ Finish(c, Response(HTTP_200_OK,
          [kind |-> "deleted", success |-> TRUE, deleted |-> req[c].category_id,
           hasChildren |-> FALSE, childCount |-> 0]))
    /\ UNCHANGED saveOrder

(***************************************************************************)
(* Specifications.                                                         *)
(* Spec: one caller, one request at a time, every route.                   *)
(* SpecConc: two callers whose save-tree requests are in flight together;  *)
(* each await of the server (dependency, validation, handler) is a step    *)
(* at which the event loop may switch to the other request.                *)
(***************************************************************************)
Next ==
    \E c \in Caller :
        \/ Send(c)
        \/ Resend(c)
        \/ Authenticate(c)
        \/ Validate(c)
        \/ GetCategories(c)
        \/ GetCategoryTree(c)
        \/ GetCategory(c)
        \/ CreateCategory(c)
        \/ SaveCategoryTree(c)
        \/ UpdateCategory(c)
        \/ PatchCategory(c)
        \/ DeleteCategory(c)
        \/ Receive(c)

Spec == Init /\ [][Next]_vars

NextConc ==
    \E c \in Clients :
        \/ ConcSend(c)
        \/ Authenticate(c)
        \/ Validate(c)
        \/ SaveCategoryTree(c)
        \/ Receive(c)

SpecConc == Init /\ [][NextConc]_vars

(***************************************************************************)
(* Vocabulary of the properties below.                                     *)
(***************************************************************************)
\* caller c holds the 2xx answer of a save-tree call
SaveDone(c) ==
    /\ pc[c] = "done"
    /\ req[c].endpoint = "save_category_tree"
    /\ resp[c].status \in 200..299

SubmittedTree(c) == req[c].body.categories
Created(c) == Range(resp[c].body.created)
Updated(c) == Range(resp[c].body.updated)
Deleted(c) == Range(resp[c].body.deleted)

Row(id, name, parentId, order) ==
    [id |-> id, name |-> name, parentId |-> parentId, order |-> order]

\* the flat rows of a submitted forest: a node's parent is the node it is
\* nested in, its order its position among its siblings
RECURSIVE FlatRows(_, _)
FlatRows(nodes, parentId) ==
    UNION {{Row(nodes[i].id, nodes[i].name, parentId, i - 1)}
              \cup FlatRows(nodes[i].children, nodes[i].id) : i \in DOMAIN nodes}

\* the ids a forest carries
TreeIds(nodes) == {r.id[1] : r \in {x \in FlatRows(nodes, None) : ~IsNone(x.id)}}

\* the owner's stored rows: what the flat listing shows
StoredRows ==
    {Row(Some(FlatCategories[i].id), FlatCategories[i].name,
         FlatCategories[i].parentId, FlatCategories[i].order) :
        i \in DOMAIN FlatCategories}
StoredIds == {r.id[1] : r \in StoredRows}

\* the stored descendants of a stored id
RECURSIVE StoredBelow(_, _)
StoredBelow(ids, n) ==
    IF n = 0 THEN ids
    ELSE StoredBelow(ids \cup {r.id[1] : r \in {x \in StoredRows :
                        ~IsNone(x.parentId) /\ x.parentId[1] \in ids}}, n - 1)
StoredSubtree(id) == StoredBelow({id}, Cardinality(StoredRows))

\* rows of `incoming` whose id is a row of `persisted` with other fields
ChangedIds(persisted, incoming) ==
    {r.id[1] : r \in {x \in incoming :
        ~IsNone(x.id) /\ \E p \in persisted : p.id = x.id /\ p # x}}

\* the ids of a node's descendants
RECURSIVE BelowIds(_)
BelowIds(n) ==
    UNION {{n.children[i].id} \cup BelowIds(n.children[i]) : i \in DOMAIN n.children}

\* some node of the forest has its own id among its descendants
RECURSIVE HasCycle(_)
HasCycle(nodes) ==
    \E i \in DOMAIN nodes :
        \/ ~IsNone(nodes[i].id) /\ nodes[i].id \in BelowIds(nodes[i])
        \/ HasCycle(nodes[i].children)

(***************************************************************************)
(* Properties.                                                             *)
(***************************************************************************)
\* C1: a save-tree call that repeats the caller's previous successful call,
\* same tree, answers created = [], updated = [] and deleted = [].
C1_Idempotent ==
    \A c \in Clients :
        SaveDone(c) /\ repeat[c] =>
            /\ resp[c].body.created = <<>>
            /\ resp[c].body.updated = <<>>
            /\ resp[c].body.deleted = <<>>

\* C2: updated holds exactly the submitted ids that are stored with another
\* name, parentId or order; a node submitted as stored is not in it.
C2_UpdatedExact ==
    \A c \in Clients :
        SaveDone(c) =>
            Updated(c) = ChangedIds(StoredRows, FlatRows(SubmittedTree(c), None))

\* C3: deleted holds exactly the stored ids the submitted tree does not
\* carry, and after an empty submission the owner has no categories.
C3_DeletedExact ==
    \A c \in Clients :
        SaveDone(c) =>
            /\ Deleted(c) = StoredIds \ TreeIds(SubmittedTree(c))
            /\ (SubmittedTree(c) = <<>> =>
                  GetCategoriesResult(Some("flat")) = <<>>)

\* C4: a stored node the submitted tree does not carry is in deleted with
\* all its stored descendants, and no stored parentId points at a deleted or
\* missing category.
C4_Cascade ==
    \A c \in Clients :
        SaveDone(c) =>
            /\ \A id \in StoredIds \ TreeIds(SubmittedTree(c)) :
                  StoredSubtree(id) \subseteq Deleted(c)
            /\ \A r \in StoredRows :
                  IsNone(r.parentId) \/ r.parentId[1] \in StoredIds \ Deleted(c)

\* C5: after a successful save of T, created, updated and the stored ids
\* kept unchanged together are exactly the ids of T.
C5_Complete ==
    \A c \in Clients :
        SaveDone(c) =>
            Created(c) \cup Updated(c) \cup (StoredIds \ (Updated(c) \cup Deleted(c)))
                = TreeIds(SubmittedTree(c))

\* C7: a submitted tree with a node among its own descendants is answered
\* with an error, never 2xx.
C7_CycleRejected ==
    \A c \in Clients :
        (/\ pc[c] = "done"
         /\ req[c].endpoint = "save_category_tree"
         /\ HasCycle(SubmittedTree(c)))
            => resp[c].status \notin 200..299

\* C8: of two save-tree calls in flight together, the one handled second
\* answers the diff of its tree against the tree the first one saved, or a
\* conflict.
C8_Serialized ==
    \A i \in 1..Len(saveOrder) : \A j \in 1..Len(saveOrder) :
        j = i + 1 =>
            LET first == saveOrder[i]
                second == saveOrder[j]
                committed == FlatRows(SubmittedTree(first), None)
                incoming == FlatRows(SubmittedTree(second), None)
            IN  \/ resp[second].status = 409
                \/ /\ Created(second) =
                        TreeIds(SubmittedTree(second)) \ TreeIds(SubmittedTree(first))
                   /\ Updated(second) = ChangedIds(committed, incoming)
                   /\ Deleted(second) =
                        TreeIds(SubmittedTree(first)) \ TreeIds(SubmittedTree(second))

\* C9: in a successful save-tree response no id is in two of created,
\* updated and deleted.
C9_Disjoint ==
    \A c \in Clients :
        SaveDone(c) =>
            /\ Created(c) \cap Updated(c) = {}
            /\ Created(c) \cap Deleted(c) = {}
            /\ Updated(c) \cap Deleted(c) = {}

\* a caller holds a successful save-tree response
C9_Witness == \E c \in Clients : SaveDone(c) /\ Created(c) # {} /\ Deleted(c) # {}

\* C10: a request whose credential is missing or is not the valid key is
\* answered 401 on every route, without a handler result.
C10_AuthRequired ==
    \A c \in Clients :
        pc[c] # "idle" /\ req[c].api_key # Some(API_KEY) =>
            /\ pc[c] \notin {"authenticated", "validated"}
            /\ pc[c] = "done" =>
                  /\ resp[c].status = HTTP_401_UNAUTHORIZED
                  /\ resp[c].body.kind = "error"

\* the number of nodes of a forest that carry no id
RECURSIVE IdLessCount(_)
IdLessCount(nodes) ==
    IF nodes = <<>> THEN 0
    ELSE (IF IsNone(Head(nodes).id) THEN 1 ELSE 0)
            + IdLessCount(Head(nodes).children) + IdLessCount(Tail(nodes))

\* every name of the forest is within the length bounds
RECURSIVE NamesValid(_)
NamesValid(nodes) ==
    \A i \in DOMAIN nodes :
        ValidName(nodes[i].name) /\ NamesValid(nodes[i].children)

\* C11: a save-tree submission whose nodes are well-formed except that some
\* carry no id is accepted, and created holds one fresh id per id-less node,
\* none of them a stored id.
C11_IdLessCreated ==
    \A c \in Clients :
        (/\ pc[c] = "done"
         /\ req[c].endpoint = "save_category_tree"
         /\ ~KeyRejected(req[c].api_key)
         /\ NamesValid(SubmittedTree(c))
         /\ IdLessCount(SubmittedTree(c)) > 0)
            => /\ resp[c].status \in 200..299
               /\ Len(resp[c].body.created) = IdLessCount(SubmittedTree(c))
               /\ Cardinality(Created(c)) = IdLessCount(SubmittedTree(c))
               /\ Created(c) \cap StoredIds = {}

\* C12: the forest GET /api/categories/tree answers is the forest
\* GET /api/categories answers with format = tree and with no format.
C12_TreeShortcut ==
    \A c \in Clients :
        (/\ pc[c] = "done"
         /\ req[c].endpoint = "get_category_tree"
         /\ resp[c].status = HTTP_200_OK)
            => \A format \in {None, Some("tree")} :
                  resp[c].body.items \in SerializeUnion(GetCategoriesResult(format))

\* C13: a patched category has the path id, the given value in every field
\* the request gives (order = 0 included), and in every other field the
\* value the category had before, as GET /api/categories/{id} shows it.
C13_PatchFrame ==
    \A c \in Clients :
        (/\ pc[c] = "done"
         /\ req[c].endpoint = "patch_category"
         /\ resp[c].status = HTTP_200_OK)
            => LET patch == req[c].body
                   before == GetCategoryResult(req[c].category_id)
                   after == resp[c].body.category
               IN  /\ after.id = req[c].category_id
                   /\ after.name =
                        IF IsNone(patch.name) THEN before.name ELSE patch.name[1]
                   /\ after.parentId =
                        IF IsNone(patch.parentId) THEN before.parentId
                        ELSE patch.parentId
                   /\ after.order =
                        IF IsNone(patch.order) THEN before.order ELSE patch.order[1]

====
